---- MODULE Spec2Model ----
(***************************************************************************)
(* Risk-assessment pipeline of the ACloserLook backend:                    *)
(*   utils/risk_scorer.py   (orchestrator, normalisation, extraction)      *)
(*   utils/vector_search.py (similarity search, caches, fallback scan)     *)
(* Python strings are TLA+ strings; Len, \o and SubSeq act on them the way *)
(* len(), + and slicing do.                                                *)
(***************************************************************************)
EXTENDS Integers, Sequences, FiniteSets, TLC

(***************************************************************************)
(* Bounds of the model.                                                    *)
(***************************************************************************)
\* longest ingredient list of one invocation
MaxIngredients == 3
\* longest ingredient_details list the generative model answers with
MaxDetails == 2

(***************************************************************************)
(* String primitives: str.lower(), "sub in s", str.strip(), str.split(',') *)
(***************************************************************************)
UpperAlpha == "ABCDEFGHIJKLMNOPQRSTUVWXYZ"
LowerAlpha == "abcdefghijklmnopqrstuvwxyz"

LowerMap ==
    [c \in {SubSeq(UpperAlpha, i, i) : i \in 1..26} |->
        SubSeq(LowerAlpha, CHOOSE k \in 1..26 : SubSeq(UpperAlpha, k, k) = c,
                           CHOOSE k \in 1..26 : SubSeq(UpperAlpha, k, k) = c)]

LowerChar(c) == IF c \in DOMAIN LowerMap THEN LowerMap[c] ELSE c

RECURSIVE Lower(_)
Lower(s) ==
    IF Len(s) = 0 THEN ""
    ELSE LowerChar(SubSeq(s, 1, 1)) \o Lower(SubSeq(s, 2, Len(s)))

Contains(s, sub) ==
    \E i \in 1..(Len(s) - Len(sub) + 1) : SubSeq(s, i, i + Len(sub) - 1) = sub

IsSpace(c) == c = " "

RECURSIVE LStrip(_)
LStrip(s) ==
    IF Len(s) > 0 /\ IsSpace(SubSeq(s, 1, 1)) THEN LStrip(SubSeq(s, 2, Len(s))) ELSE s

RECURSIVE RStrip(_)
RStrip(s) ==
    IF Len(s) > 0 /\ IsSpace(SubSeq(s, Len(s), Len(s)))
    THEN RStrip(SubSeq(s, 1, Len(s) - 1)) ELSE s

Strip(s) == RStrip(LStrip(s))

\* s.split(','): the pieces between commas, empty pieces included
RECURSIVE SplitComma(_)
SplitComma(s) ==
    IF \E i \in 1..Len(s) : SubSeq(s, i, i) = ","
    THEN LET i == CHOOSE k \in 1..Len(s) :
                     /\ SubSeq(s, k, k) = ","
                     /\ \A j \in 1..(k - 1) : SubSeq(s, j, j) # ","
         IN  <<SubSeq(s, 1, i - 1)>> \o SplitComma(SubSeq(s, i + 1, Len(s)))
    ELSE <<s>>

(***************************************************************************)
(* JSON values as the pipeline sees them after json.loads: a tag, the text *)
(* of a string, and Python truthiness.                                     *)
(***************************************************************************)
JV(t, s, truthy) == [t |-> t, s |-> s, truthy |-> truthy]
JStr(s)    == JV("str", s, s # "")
JNull      == JV("null", "", FALSE)
JAbsent    == JV("absent", "", FALSE)
JNumZero   == JV("num", "0", FALSE)
JNumFive   == JV("num", "5", TRUE)
JEmptyList == JV("list", "", FALSE)

\* one element of ingredient_details: a dict with three optional keys, or a
\* non-dict value (kind # "dict")
Item(kind, name, risk_level, reason) ==
    [kind |-> kind, name |-> name, risk_level |-> risk_level, reason |-> reason]

\* dict.get(key, default)
Get(v, default) == IF v.t = "absent" THEN default ELSE v

(***************************************************************************)
(* risk_scorer._normalize_risk_level. The result is                        *)
(* [raised |-> FALSE, value |-> label], or raised = TRUE when the argument *)
(* is a truthy non-string (AttributeError on .lower()).                    *)
(***************************************************************************)
\* ClassifyLower without its final default: an unmatched label passes through
ClassifyLowerNoDefault(llm_level_lower) ==
    IF Contains(llm_level_lower, "low") /\ Contains(llm_level_lower, "safe")
       THEN "Low Risk"
    ELSE IF Contains(llm_level_lower, "caution") \/ Contains(llm_level_lower, "irritat")
       THEN "Caution"
    ELSE IF Contains(llm_level_lower, "high") \/ Contains(llm_level_lower, "harm")
       THEN "High Risk"
    ELSE llm_level_lower

\* ClassifyLower that looks for the high-risk keywords before the caution ones
ClassifyLowerHighFirst(llm_level_lower) ==
    IF Contains(llm_level_lower, "low") /\ Contains(llm_level_lower, "safe")
       THEN "Low Risk"
    ELSE IF Contains(llm_level_lower, "high") \/ Contains(llm_level_lower, "harm")
       THEN "High Risk"
    ELSE IF Contains(llm_level_lower, "caution") \/ Contains(llm_level_lower, "irritat")
       THEN "Caution"
    ELSE "Caution"

\* the if / elif chain on the lower-cased label
ClassifyLower(llm_level_lower) ==
    IF Contains(llm_level_lower, "low") /\ Contains(llm_level_lower, "safe")
       THEN "Low Risk"
    ELSE IF Contains(llm_level_lower, "caution") \/ Contains(llm_level_lower, "irritat")
       THEN "Caution"
    ELSE IF Contains(llm_level_lower, "high") \/ Contains(llm_level_lower, "harm")
       THEN "High Risk"
    ELSE "Caution"

_normalize_risk_level(v) ==
    IF ~v.truthy THEN [raised |-> FALSE, value |-> "Caution"]
    ELSE IF v.t # "str" THEN [raised |-> TRUE, value |-> ""]
    ELSE [raised |-> FALSE, value |-> ClassifyLower(Lower(v.s))]

(***************************************************************************)
(* risk_scorer._extract_risky_ingredients. ingredient_details is           *)
(* [t |-> tag, items |-> the elements a for-loop over it yields]; a value  *)
(* that is not iterable (number, null) raises TypeError, and an element    *)
(* whose risk_level is not a string raises AttributeError on .lower().     *)
(***************************************************************************)
Details(t, items) == [t |-> t, items |-> items]

Iterable(d) == d.t \in {"list", "str", "dict"}

\* ContainsMediumOrHigh that forgets "medium"
ContainsHighOnly(risk_level) == Contains(risk_level, "high")

ContainsMediumOrHigh(risk_level) ==
    Contains(risk_level, "medium") \/ Contains(risk_level, "high")

\* risk_level = item.get('risk_level', '').lower(), then the test on it
IsRisky(risk_level) == ContainsMediumOrHigh(Lower(risk_level))

RiskyEntry(item) ==
    [name       |-> Get(item.name, JStr("Unknown")),
     risk_level |-> Get(item.risk_level, JStr("Unknown")),
     reason     |-> Get(item.reason, JStr("No details available"))]

RECURSIVE ExtractLoop(_, _, _)
ExtractLoop(items, i, risky_items) ==
    IF i > Len(items) THEN [raised |-> FALSE, value |-> risky_items]
    ELSE LET item == items[i] IN
         IF item.kind # "dict" THEN ExtractLoop(items, i + 1, risky_items)
         ELSE LET risk_level == Get(item.risk_level, JStr("")) IN
              IF risk_level.t # "str" THEN [raised |-> TRUE, value |-> <<>>]
              ELSE IF IsRisky(risk_level.s)
                   THEN ExtractLoop(items, i + 1, Append(risky_items, RiskyEntry(item)))
                   ELSE ExtractLoop(items, i + 1, risky_items)

_extract_risky_ingredients(ingredient_details) ==
    IF ~Iterable(ingredient_details) THEN [raised |-> TRUE, value |-> <<>>]
    ELSE ExtractLoop(ingredient_details.items, 1, <<>>)

(***************************************************************************)
(* risk_scorer._fetch_user_sensitivities. The profile store answers with   *)
(* [kind |-> "raises"] (no row, connectivity), [kind |-> "nodata"] or      *)
(* [kind |-> "data", t |-> type of the sensitivities value, s |-> its text *)
(* when a string, items |-> its elements when a list].                     *)
(***************************************************************************)
ProfileAnswer(kind, t, s, items) == [kind |-> kind, t |-> t, s |-> s, items |-> items]

RECURSIVE StripNonEmpty(_)
StripNonEmpty(parts) ==
    IF parts = <<>> THEN <<>>
    ELSE LET h == Strip(Head(parts)) IN
         (IF h # "" THEN <<h>> ELSE <<>>) \o StripNonEmpty(Tail(parts))

RECURSIVE StripTruthy(_)
StripTruthy(items) ==
    IF items = <<>> THEN <<>>
    ELSE (IF Head(items) # "" THEN <<Strip(Head(items))>> ELSE <<>>)
         \o StripTruthy(Tail(items))

\* IsAnonymous that lets the empty user id through to the profile store
IsAnonymousByNameOnly(uid) == uid = "anonymous"

\* if not user_id or user_id == "anonymous"
IsAnonymous(uid) == uid = "" \/ uid = "anonymous"

\* whether the profile store is queried at all
QueriesProfileStore(uid) == ~IsAnonymous(uid)

\* the body of the try block: raised = TRUE when the store call raises or
\* response.data is not a dict
FetchBody(uid, answer) ==
    IF IsAnonymous(uid) THEN [raised |-> FALSE, value |-> <<>>]
    ELSE IF answer.kind \in {"raises", "baddata"} THEN [raised |-> TRUE, value |-> <<>>]
    ELSE IF answer.kind = "nodata" THEN [raised |-> FALSE, value |-> <<>>]
    ELSE IF answer.t = "str"
         THEN [raised |-> FALSE, value |-> StripNonEmpty(SplitComma(answer.s))]
    ELSE IF answer.t = "list"
         THEN [raised |-> FALSE, value |-> StripTruthy(answer.items)]
    ELSE [raised |-> FALSE, value |-> <<>>]

\* CatchAll without the except clause: the exception escapes
NoCatch(body) == body

\* try: body, except Exception: return []
CatchAll(body) == IF body.raised THEN [raised |-> FALSE, value |-> <<>>] ELSE body

_fetch_user_sensitivities(uid, answer) == CatchAll(FetchBody(uid, answer))

(***************************************************************************)
(* The knowledge base (table ingredients_library) and the embedding        *)
(* backend. Embeddings are integer vectors of dimension 2 instead of 1536  *)
(* floats; <<>> is a row without an embedding.                             *)
(***************************************************************************)
KBRow(id, name, description, risk_level, embedding) ==
    [id |-> id, name |-> name, description |-> description,
     risk_level |-> risk_level, embedding |-> embedding]

KB ==
    << KBRow(1, "Fragrance",  "scent mix",   "High",   <<4, 1>>),
       KBRow(2, "Rayon",      "viscose",     "Medium", <<1, 4>>),
       KBRow(3, "Phthalates", "plasticizer", "High",   <<3, 1>>),
       KBRow(4, "Cotton",     "fibre",       "Low",    <<1, 1>>),
       KBRow(5, "Chlorine",   "bleach",      "High",   <<2, 3>>),
       KBRow(6, "Dioxin",     "byproduct",   "High",   <<1, -1>>),
       KBRow(7, "Aloe Vera",  "plant gel",   "Low",    <<-1, -4>>),
       KBRow(8, "Unindexed",  "no vector",   "Medium", <<>>) >>

\* what the embedding backend answers for a (trimmed) text
EmbedOf(text) ==
    CASE text = "Fragrance" -> <<4, 1>>
      [] text = "Rayon"     -> <<1, 4>>
      [] OTHER              -> <<1, 1>>

(***************************************************************************)
(* vector_search._cosine_similarity. A score is the exact real             *)
(* num / sqrt(den2), kept as the pair; 0.0 is [num |-> 0, den2 |-> 1].     *)
(***************************************************************************)
RECURSIVE Dot(_, _)
Dot(v1, v2) ==
    IF v1 = <<>> THEN 0 ELSE Head(v1) * Head(v2) + Dot(Tail(v1), Tail(v2))

ZeroScore == [num |-> 0, den2 |-> 1]

CosineOf(dot_product, magnitude1sq, magnitude2sq) ==
    IF magnitude1sq = 0 \/ magnitude2sq = 0 THEN ZeroScore
    ELSE [num |-> dot_product, den2 |-> magnitude1sq * magnitude2sq]

_cosine_similarity(vec1, vec2) ==
    IF vec1 = <<>> \/ vec2 = <<>> \/ Len(vec1) # Len(vec2) THEN ZeroScore
    ELSE CosineOf(Dot(vec1, vec2), Dot(vec1, vec1), Dot(vec2, vec2))

(***************************************************************************)
(* _cosine_similarity as the interpreter evaluates it: in binary floating  *)
(* point, every operation rounded to nearest, ties to even. A float is the *)
(* fraction n / d with d a power of two. The significand has Precision     *)
(* bits (53 in the interpreter); the exponent range is not modelled, so    *)
(* nothing overflows or underflows.                                        *)
(***************************************************************************)
\* bits of the significand
Precision == 5

RECURSIVE Pow2(_)
Pow2(k) == IF k = 0 THEN 1 ELSE 2 * Pow2(k - 1)

\* the float nearest to n / d, for n >= 0 and d > 0
FloatRound(n, d) ==
    IF n = 0 THEN [n |-> 0, d |-> 1]
    ELSE LET k  == CHOOSE j \in -10..10 :
                      LET N == IF j >= 0 THEN n * Pow2(j) ELSE n
                          D == IF j >= 0 THEN d ELSE d * Pow2(-j)
                      IN  Pow2(Precision - 1) * D <= N /\ N < Pow2(Precision) * D
             N  == IF k >= 0 THEN n * Pow2(k) ELSE n
             D  == IF k >= 0 THEN d ELSE d * Pow2(-k)
             m0 == N \div D
             r  == N - m0 * D
             m  == IF 2 * r > D \/ (2 * r = D /\ m0 % 2 = 1) THEN m0 + 1 ELSE m0
         IN  IF k >= 0 THEN [n |-> m, d |-> Pow2(k)] ELSE [n |-> m * Pow2(-k), d |-> 1]

\* s ** 0.5 for an integer s >= 0, rounded
FloatSqrt(s) ==
    IF s = 0 THEN [n |-> 0, d |-> 1]
    ELSE LET k  == CHOOSE j \in 0..Precision :
                      Pow2(2 * (Precision - 1)) <= s * Pow2(2 * j)
                      /\ s * Pow2(2 * j) < Pow2(2 * Precision)
             T  == s * Pow2(2 * k)
             m0 == CHOOSE m \in Pow2(Precision - 1)..(Pow2(Precision) - 1) :
                      m * m <= T /\ T < (m + 1) * (m + 1)
         IN  [n |-> IF T > m0 * m0 + m0 THEN m0 + 1 ELSE m0, d |-> Pow2(k)]

Abs(x) == IF x < 0 THEN -x ELSE x

\* dot_product / (magnitude1 * magnitude2); ZeroDivisionError on a zero divisor
FloatDivide(dot_product, magnitude1, magnitude2) ==
    LET divisor == FloatRound(magnitude1.n * magnitude2.n, magnitude1.d * magnitude2.d)
        q == FloatRound(Abs(dot_product) * divisor.d, divisor.n)
    IN  IF divisor.n = 0
        THEN [raised |-> TRUE, n |-> 0, d |-> 1]
        ELSE [raised |-> FALSE, n |-> IF dot_product < 0 THEN -q.n ELSE q.n, d |-> q.d]

\* _cosine_similarity without the test for a zero magnitude
CosineFloatUnguarded(vec1, vec2) ==
    IF vec1 = <<>> \/ vec2 = <<>> \/ Len(vec1) # Len(vec2)
    THEN [raised |-> FALSE, n |-> 0, d |-> 1]
    ELSE FloatDivide(Dot(vec1, vec2), FloatSqrt(Dot(vec1, vec1)),
                     FloatSqrt(Dot(vec2, vec2)))

\* the sums are sums of small integers, which floats hold exactly
CosineFloat(vec1, vec2) ==
    IF vec1 = <<>> \/ vec2 = <<>> \/ Len(vec1) # Len(vec2)
    THEN [raised |-> FALSE, n |-> 0, d |-> 1]
    ELSE IF FloatSqrt(Dot(vec1, vec1)).n = 0 \/ FloatSqrt(Dot(vec2, vec2)).n = 0
    THEN [raised |-> FALSE, n |-> 0, d |-> 1]
    ELSE FloatDivide(Dot(vec1, vec2), FloatSqrt(Dot(vec1, vec1)),
                     FloatSqrt(Dot(vec2, vec2)))

\* a < b as real numbers
ScoreLess(a, b) ==
    IF a.num < 0 /\ b.num >= 0 THEN TRUE
    ELSE IF a.num >= 0 /\ b.num < 0 THEN FALSE
    ELSE IF a.num >= 0 THEN a.num * a.num * b.den2 < b.num * b.num * a.den2
    ELSE a.num * a.num * b.den2 > b.num * b.num * a.den2

\* score > 0.1, the match_threshold sent to the RPC
AboveThreshold(score) == score.num > 0 /\ 100 * score.num * score.num > score.den2

SearchRow(row, score) ==
    [id |-> row.id, name |-> row.name, description |-> row.description,
     risk_level |-> row.risk_level, similarity_score |-> score]

\* list.sort(key=similarity_score, reverse=True): stable, best first
RECURSIVE InsertByScore(_, _)
InsertByScore(sorted, r) ==
    IF sorted = <<>> THEN <<r>>
    ELSE IF ScoreLess(Head(sorted).similarity_score, r.similarity_score)
         THEN <<r>> \o sorted
         ELSE <<Head(sorted)>> \o InsertByScore(Tail(sorted), r)

RECURSIVE SortByScore(_, _)
SortByScore(rows, sorted) ==
    IF rows = <<>> THEN sorted
    ELSE SortByScore(Tail(rows), InsertByScore(sorted, Head(rows)))

\* results[:limit]
Take(rows, limit) == SubSeq(rows, 1, IF limit < Len(rows) THEN limit ELSE Len(rows))

(***************************************************************************)
(* vector_search.py constants and the two search paths.                    *)
(***************************************************************************)
DEFAULT_SEARCH_LIMIT == 5
MAX_SEARCH_LIMIT == 20

\* Python None as a risk_level_filter; str(None) in the cache key
NoFilter == "None"
ValidFilters == {"Low", "Medium", "High"}

\* "if risk_level_filter:" is false for None and for the empty string
FilterSet(risk_level_filter) == risk_level_filter # NoFilter /\ risk_level_filter # ""

RECURSIVE ScoreRows(_, _)
ScoreRows(rows, query_embedding) ==
    IF rows = <<>> THEN <<>>
    ELSE LET row == Head(rows) IN
         (IF row.embedding # <<>>
          THEN <<SearchRow(row, _cosine_similarity(query_embedding, row.embedding))>>
          ELSE <<>>) \o ScoreRows(Tail(rows), query_embedding)

RECURSIVE FilterByRisk(_, _)
FilterByRisk(rows, risk_level_filter) ==
    IF rows = <<>> THEN <<>>
    ELSE (IF Head(rows).risk_level = risk_level_filter THEN <<Head(rows)>> ELSE <<>>)
         \o FilterByRisk(Tail(rows), risk_level_filter)

RECURSIVE FilterAbove(_)
FilterAbove(rows) ==
    IF rows = <<>> THEN <<>>
    ELSE (IF AboveThreshold(Head(rows).similarity_score) THEN <<Head(rows)>> ELSE <<>>)
         \o FilterAbove(Tail(rows))

\* the knowledge base's search_ingredients RPC: the match_limit nearest rows
\* whose similarity is above match_threshold, best first
SearchNearestRPC(query_embedding, match_limit) ==
    Take(SortByScore(FilterAbove(ScoreRows(KB, query_embedding)), <<>>), match_limit)

\* _fallback_search: scan_ok = FALSE when the table read raises
ApplyFilter(rows, risk_level_filter) ==
    IF FilterSet(risk_level_filter) THEN FilterByRisk(rows, risk_level_filter) ELSE rows

\* _fallback_search without the [:limit] slice
FallbackWithoutLimit(query_embedding, limit, risk_level_filter, scan_ok) ==
    IF ~scan_ok THEN [raised |-> TRUE, value |-> <<>>]
    ELSE [raised |-> FALSE,
          value  |-> SortByScore(ApplyFilter(ScoreRows(KB, query_embedding),
                                             risk_level_filter), <<>>)]

_fallback_search(query_embedding, limit, risk_level_filter, scan_ok) ==
    IF ~scan_ok THEN [raised |-> TRUE, value |-> <<>>]
    ELSE [raised |-> FALSE,
          value  |-> Take(SortByScore(ApplyFilter(ScoreRows(KB, query_embedding),
                                                  risk_level_filter), <<>>), limit)]

(***************************************************************************)
(* generate_query_embedding with _generate_embedding_cached (lru_cache).   *)
(* embedding_cache is the lru_cache: entries [text, vector] of trimmed     *)
(* texts, least recently used first, at most MaxCachedEmbeddings of them.  *)
(***************************************************************************)
CachePut(cache, key, value) ==
    [k \in DOMAIN cache \cup {key} |-> IF k = key THEN value ELSE cache[k]]

\* maxsize of the lru_cache: 1000 in the source, scaled down with the number
\* of distinct texts the model embeds
MaxCachedEmbeddings == 2

CachedTexts(cache) == {cache[i].text : i \in 1..Len(cache)}

CachedVector(cache, q) == cache[CHOOSE i \in 1..Len(cache) : cache[i].text = q].vector

RECURSIVE Without(_, _)
Without(cache, q) ==
    IF cache = <<>> THEN <<>>
    ELSE (IF Head(cache).text = q THEN <<>> ELSE <<Head(cache)>>) \o Without(Tail(cache), q)

\* a hit makes the entry the most recently used
Touch(cache, q) == Append(Without(cache, q), [text |-> q, vector |-> CachedVector(cache, q)])

\* a miss stores the new entry and, when the cache is full, discards the least
\* recently used one
LruStore(cache, q, vector) ==
    IF Len(cache) >= MaxCachedEmbeddings
    THEN Append(Tail(cache), [text |-> q, vector |-> vector])
    ELSE Append(cache, [text |-> q, vector |-> vector])

\* an embedding step that remembers a failure as an empty vector
EmbeddingOfCachingFailure(q, embedding_cache, embed_ok) ==
    IF q \in CachedTexts(embedding_cache)
    THEN [raised |-> CachedVector(embedding_cache, q) = <<>>,
          value |-> CachedVector(embedding_cache, q),
          cache |-> Touch(embedding_cache, q), called |-> FALSE]
    ELSE IF embed_ok
    THEN [raised |-> FALSE, value |-> EmbedOf(q),
          cache |-> LruStore(embedding_cache, q, EmbedOf(q)), called |-> TRUE]
    ELSE [raised |-> TRUE, value |-> <<>>,
          cache |-> LruStore(embedding_cache, q, <<>>), called |-> TRUE]

EmbeddingOf(q, embedding_cache, embed_ok) ==
    IF q \in CachedTexts(embedding_cache)
    THEN [raised |-> FALSE, value |-> CachedVector(embedding_cache, q),
          cache |-> Touch(embedding_cache, q), called |-> FALSE]
    ELSE IF embed_ok
    THEN [raised |-> FALSE, value |-> EmbedOf(q),
          cache |-> LruStore(embedding_cache, q, EmbedOf(q)), called |-> TRUE]
    ELSE [raised |-> TRUE, value |-> <<>>, cache |-> embedding_cache, called |-> TRUE]

generate_query_embedding(query, embedding_cache, embed_ok) ==
    IF query = "" \/ Strip(query) = ""
    THEN [raised |-> TRUE, value |-> <<>>, cache |-> embedding_cache, called |-> FALSE]
    ELSE EmbeddingOf(Strip(query), embedding_cache, embed_ok)

(***************************************************************************)
(* search_similar_ingredients. env says how the collaborators answer this  *)
(* call: embed_ok (embedding backend), client_ok (get_supabase_client),    *)
(* rpc_ok (search_ingredients RPC), scan_ok (table read of the fallback).  *)
(* The result carries the two caches as the call leaves them.              *)
(***************************************************************************)
Env(embed_ok, client_ok, rpc_ok, scan_ok) ==
    [embed_ok |-> embed_ok, client_ok |-> client_ok, rpc_ok |-> rpc_ok,
     scan_ok |-> scan_ok]

\* a collaborator that is not reached after an earlier failure answers nothing,
\* so these five cover every combination of the four answers
Envs == { Env(TRUE, TRUE, TRUE, TRUE), Env(FALSE, TRUE, TRUE, TRUE),
          Env(TRUE, FALSE, TRUE, TRUE), Env(TRUE, TRUE, FALSE, TRUE),
          Env(TRUE, TRUE, FALSE, FALSE) }

\* EffectiveLimit that clamps to the nearest bound instead of the default
EffectiveLimitClamping(limit) ==
    IF limit < 1 THEN 1 ELSE IF limit > MAX_SEARCH_LIMIT THEN MAX_SEARCH_LIMIT ELSE limit

\* limits are integers in the model: "not isinstance(limit, int)" takes the
\* same branch as an integer out of range
EffectiveLimit(limit) ==
    IF limit < 1 \/ limit > MAX_SEARCH_LIMIT THEN DEFAULT_SEARCH_LIMIT ELSE limit

EffectiveFilter(risk_level_filter) ==
    IF FilterSet(risk_level_filter) /\ risk_level_filter \notin ValidFilters
    THEN NoFilter ELSE risk_level_filter

\* a key that leaves the limit out, so that two limits share a slot
CacheKeyWithoutLimit(query, limit, risk_level_filter) ==
    query \o ":" \o risk_level_filter

CacheKey(query, limit, risk_level_filter) ==
    query \o ":" \o ToString(limit) \o ":" \o risk_level_filter

SearchResult(raised, value, path, search_cache, embedding_cache, embed_called) ==
    [raised |-> raised, value |-> value, path |-> path,
     search_cache |-> search_cache, embedding_cache |-> embedding_cache,
     embed_called |-> embed_called]

\* the RPC answered: filter, then return (and cache, unless empty)
AfterRPC(results, cache_key, search_cache, e) ==
    IF results = <<>>
    THEN SearchResult(FALSE, <<>>, "rpc", search_cache, e.cache, e.called)
    ELSE SearchResult(FALSE, results, "rpc", CachePut(search_cache, cache_key, results),
                      e.cache, e.called)

AfterFallback(f, search_cache, e) ==
    SearchResult(f.raised, f.value, "fallback", search_cache, e.cache, e.called)

\* after the cache miss: embedding, client, RPC, fallback
SearchMiss(e, limit, risk_level_filter, cache_key, search_cache, env) ==
    IF e.raised
    THEN SearchResult(TRUE, <<>>, "embedding", search_cache, e.cache, e.called)
    ELSE IF ~env.client_ok
    THEN SearchResult(TRUE, <<>>, "client", search_cache, e.cache, e.called)
    ELSE IF env.rpc_ok
    THEN AfterRPC(ApplyFilter(SearchNearestRPC(e.value, limit), risk_level_filter),
                  cache_key, search_cache, e)
    ELSE AfterFallback(_fallback_search(e.value, limit, risk_level_filter, env.scan_ok),
                       search_cache, e)

SearchKeyed(query, limit, risk_level_filter, cache_key, search_cache, embedding_cache, env) ==
    IF cache_key \in DOMAIN search_cache
    THEN SearchResult(FALSE, search_cache[cache_key], "hit",
                      search_cache, embedding_cache, FALSE)
    ELSE SearchMiss(generate_query_embedding(query, embedding_cache, env.embed_ok),
                    limit, risk_level_filter, cache_key, search_cache, env)

search_similar_ingredients(query, limit, risk_level_filter, search_cache, embedding_cache, env) ==
    SearchKeyed(query, EffectiveLimit(limit), EffectiveFilter(risk_level_filter),
                CacheKey(query, EffectiveLimit(limit), EffectiveFilter(risk_level_filter)),
                search_cache, embedding_cache, env)

(***************************************************************************)
(* prompts.format_risk_assessment_prompt: the three rendered sections.     *)
(***************************************************************************)
RECURSIVE JoinWith(_, _)
JoinWith(parts, sep) ==
    IF parts = <<>> THEN ""
    ELSE IF Len(parts) = 1 THEN Head(parts)
    ELSE Head(parts) \o sep \o JoinWith(Tail(parts), sep)

RECURSIVE ContextLines(_)
ContextLines(rows) ==
    IF rows = <<>> THEN <<>>
    ELSE <<"- " \o Head(rows).name \o ": " \o Head(rows).description
           \o " (Risk Level: " \o Head(rows).risk_level \o ")">>
         \o ContextLines(Tail(rows))

format_risk_assessment_prompt(ingredients, sensitivities, retrieved) ==
    [scanned_ingredients   |-> IF ingredients # <<>>
                               THEN JoinWith(ingredients, ", ") ELSE "None",
     user_sensitivities    |-> IF sensitivities # <<>>
                               THEN JoinWith(sensitivities, ", ")
                               ELSE "No known sensitivities",
     retrieved_vector_data |-> IF retrieved # <<>>
                               THEN JoinWith(ContextLines(retrieved), "\n")
                               ELSE "No similar ingredients found in knowledge base"]

(***************************************************************************)
(* risk_scorer._search_all_ingredients: the merge of one search's rows.    *)
(***************************************************************************)
RECURSIVE IdSet(_)
IdSet(rows) == IF rows = <<>> THEN {} ELSE {Head(rows).id} \cup IdSet(Tail(rows))

\* MergeResults without the seen_ids test: every row is appended
MergeWithoutDedup(all_results, seen_ids, results) ==
    [all_results |-> all_results \o results, seen_ids |-> seen_ids \cup IdSet(results)]

RECURSIVE MergeResults(_, _, _)
MergeResults(all_results, seen_ids, results) ==
    IF results = <<>> THEN [all_results |-> all_results, seen_ids |-> seen_ids]
    ELSE LET result == Head(results) IN
         IF result.id \notin seen_ids
         THEN MergeResults(Append(all_results, result), seen_ids \cup {result.id},
                           Tail(results))
         ELSE MergeResults(all_results, seen_ids, Tail(results))

\* what the loop does with one ingredient's search: a VectorSearchError is
\* logged and the loop continues
\* SearchOneIngredient that gives up on a failed search and drops what it had
SearchOneIngredientAborting(all_results, seen_ids, r) ==
    IF r.raised THEN [all_results |-> <<>>, seen_ids |-> {}]
    ELSE MergeResults(all_results, seen_ids, r.value)

SearchOneIngredient(all_results, seen_ids, r) ==
    IF r.raised THEN [all_results |-> all_results, seen_ids |-> seen_ids]
    ELSE MergeResults(all_results, seen_ids, r.value)

max_results_per_ingredient == 3

(***************************************************************************)
(* risk_scorer._generate_llm_assessment. The generative model's answer is  *)
(* [kind |-> "api_error" | "no_content" | "text" | "json", top |-> the     *)
(* type of the parsed value, overall, explanation |-> JSON values,         *)
(* details |-> Details].                                                   *)
(***************************************************************************)
LLMAnswer(kind, top, overall, explanation, details) ==
    [kind |-> kind, top |-> top, overall |-> overall, explanation |-> explanation,
     details |-> details]

Assessment(overall, explanation, details) ==
    [overall_risk_level |-> overall, explanation |-> explanation,
     ingredient_details |-> details]

EmptyList == Details("list", <<>>)
AbsentDetails == Details("absent", <<>>)

DefaultAssessment ==
    Assessment(JStr("Caution (Irritating)"), JStr("Assessment requires manual review"),
               EmptyList)

\* _generate_llm_assessment that treats a backend error like a parse failure
AssessmentSwallowingBackendError(answer) ==
    IF answer.kind = "no_content"
    THEN [raised |-> TRUE, value |-> DefaultAssessment]
    ELSE IF answer.kind \in {"text", "api_error"}
    THEN [raised |-> FALSE, value |-> DefaultAssessment]
    ELSE IF answer.top # "object"
    THEN [raised |-> TRUE, value |-> DefaultAssessment]
    ELSE [raised |-> FALSE,
          value |-> Assessment(
              Get(answer.overall, JStr("Caution (Irritating)")),
              Get(answer.explanation, JStr("Unable to generate detailed explanation")),
              IF answer.details.t = "absent" THEN EmptyList ELSE answer.details)]

\* _generate_llm_assessment without the except json.JSONDecodeError clause
AssessmentRaisingOnBadJSON(answer) ==
    IF answer.kind \in {"api_error", "no_content", "text"}
    THEN [raised |-> TRUE, value |-> DefaultAssessment]
    ELSE IF answer.top # "object"
    THEN [raised |-> TRUE, value |-> DefaultAssessment]
    ELSE [raised |-> FALSE,
          value |-> Assessment(
              Get(answer.overall, JStr("Caution (Irritating)")),
              Get(answer.explanation, JStr("Unable to generate detailed explanation")),
              IF answer.details.t = "absent" THEN EmptyList ELSE answer.details)]

\* _generate_llm_assessment that falls back to the whole default assessment
\* as soon as one required key is missing
AssessmentResettingOnMissingKey(answer) ==
    IF answer.kind \in {"api_error", "no_content"}
    THEN [raised |-> TRUE, value |-> DefaultAssessment]
    ELSE IF answer.kind = "text"
    THEN [raised |-> FALSE, value |-> DefaultAssessment]
    ELSE IF answer.top # "object"
    THEN [raised |-> TRUE, value |-> DefaultAssessment]
    ELSE IF "absent" \in {answer.overall.t, answer.explanation.t, answer.details.t}
    THEN [raised |-> FALSE,
          value |-> Assessment(
              JStr("Caution (Irritating)"),
              JStr("Unable to generate detailed explanation"),
              EmptyList)]
    ELSE [raised |-> FALSE,
          value |-> Assessment(answer.overall, answer.explanation, answer.details)]

_generate_llm_assessment(answer) ==
    IF answer.kind \in {"api_error", "no_content"}
    THEN [raised |-> TRUE, value |-> DefaultAssessment]
    ELSE IF answer.kind = "text"
    THEN [raised |-> FALSE, value |-> DefaultAssessment]
    ELSE IF answer.top # "object"
    THEN [raised |-> TRUE, value |-> DefaultAssessment]
    ELSE [raised |-> FALSE,
          value |-> Assessment(
              Get(answer.overall, JStr("Caution (Irritating)")),
              Get(answer.explanation, JStr("Unable to generate detailed explanation")),
              IF answer.details.t = "absent" THEN EmptyList ELSE answer.details)]

(***************************************************************************)
(* Step "Format response" of generate_risk_score and                       *)
(* generate_risk_score_for_product.                                        *)
(***************************************************************************)
NoResponse ==
    [risk_level |-> "", explanation |-> JAbsent, has_ingredients_found |-> FALSE,
     ingredients_found |-> <<>>, risky_ingredients |-> <<>>]

FormatWith(level, risky, explanation, image_entry, ingredients) ==
    IF level.raised \/ risky.raised
    THEN [raised |-> TRUE, value |-> NoResponse]
    ELSE [raised |-> FALSE,
          value |-> [risk_level |-> level.value,
                     explanation |-> explanation,
                     has_ingredients_found |-> image_entry,
                     ingredients_found |-> IF image_entry THEN ingredients ELSE <<>>,
                     risky_ingredients |-> risky.value]]

\* a product entry point that leaves the risky ingredients out of its result
FormatResponseUnevenly(risk_assessment, image_entry, ingredients) ==
    FormatWith(
        _normalize_risk_level(Get(risk_assessment.overall_risk_level, JStr("Caution"))),
        IF image_entry
        THEN _extract_risky_ingredients(
                 IF risk_assessment.ingredient_details.t = "absent"
                 THEN EmptyList ELSE risk_assessment.ingredient_details)
        ELSE [raised |-> FALSE, value |-> <<>>],
        Get(risk_assessment.explanation, JStr("Unable to generate assessment")),
        image_entry, ingredients)

FormatResponse(risk_assessment, image_entry, ingredients) ==
    FormatWith(
        _normalize_risk_level(Get(risk_assessment.overall_risk_level, JStr("Caution"))),
        _extract_risky_ingredients(
            IF risk_assessment.ingredient_details.t = "absent"
            THEN EmptyList ELSE risk_assessment.ingredient_details),
        Get(risk_assessment.explanation, JStr("Unable to generate assessment")),
        image_entry, ingredients)

\* ocr.extract_ingredients_from_image. An answer of the vision backend is
\* kind "invalid_image" (empty or oversized bytes, no call made), "bad_request",
\* "api_error", "no_content" (no text in the response), "text" (text that is
\* not JSON) or "json" with the parsed top-level value
OCRAnswer(kind, top, items) == [kind |-> kind, top |-> top, items |-> items]
NoOCRAnswer == OCRAnswer("none", "none", <<>>)

\* str(ing) of a JSON scalar
PyStr(v) == IF v.t = "null" THEN "None" ELSE v.s

\* [str(ing).strip() for ing in ingredients if ing and str(ing).strip()]
RECURSIVE CleanIngredients(_)
CleanIngredients(items) ==
    IF items = <<>> THEN <<>>
    ELSE (IF Head(items).truthy /\ Strip(PyStr(Head(items))) # ""
          THEN <<Strip(PyStr(Head(items)))>> ELSE <<>>)
         \o CleanIngredients(Tail(items))

\* extract_ingredients_from_image that answers [] when it cannot read a list
ExtractDefaultingToEmpty(answer) ==
    IF answer.kind = "json" /\ answer.top = "list"
    THEN [raised |-> FALSE, value |-> CleanIngredients(answer.items)]
    ELSE [raised |-> FALSE, value |-> <<>>]

extract_ingredients_from_image(answer) ==
    IF answer.kind # "json" THEN [raised |-> TRUE, value |-> <<>>]
    ELSE IF answer.top # "list" THEN [raised |-> TRUE, value |-> <<>>]
    ELSE [raised |-> FALSE, value |-> CleanIngredients(answer.items)]

\* routers/scan.scan_barcode_with_assessment: what the endpoint answers. An
\* error answer is an HTTPException and carries a status code and nothing else
NoHttp ==
    [state |-> "none", status_code |-> 0, has_scan_id |-> FALSE,
     has_timestamp |-> FALSE, save_scheduled |-> FALSE, body |-> NoResponse]
Pending == [NoHttp EXCEPT !.state = "pending"]
HttpError(code) == [NoHttp EXCEPT !.state = "error", !.status_code = code]
HttpOk(assessment) ==
    [state |-> "ok", status_code |-> 200, has_scan_id |-> TRUE,
     has_timestamp |-> TRUE, save_scheduled |-> TRUE, body |-> assessment]

BarcodeRequest(barcode, uid) == [barcode |-> barcode, user_id |-> uid]
Lookup(kind, ingredients) == [kind |-> kind, ingredients |-> ingredients]

\* input validation, lookup_product_by_barcode and BarcodeProduct(**product_data)
Admit(request, lookup) ==
    IF Strip(request.barcode) = "" THEN HttpError(400)
    ELSE IF Strip(request.user_id) = "" THEN HttpError(422)
    ELSE IF lookup.kind = "raises" THEN HttpError(500)
    ELSE IF lookup.kind = "not_found" THEN HttpError(404)
    ELSE IF lookup.kind = "invalid" THEN HttpError(500)
    ELSE Pending

\* an endpoint that schedules save_scan_to_history before it looks at the error
RespondSchedulingFirst(result) ==
    IF result.status = "RiskScorerError"
    THEN [HttpError(500) EXCEPT !.save_scheduled = TRUE]
    ELSE HttpOk(result.response)

\* except RiskScorerError -> HTTPException(500); otherwise scan_id, timestamp,
\* the response dict, background_tasks.add_task(save_scan_to_history, ...)
Respond(result) ==
    IF result.status = "RiskScorerError"
    THEN HttpError(500)
    ELSE HttpOk(result.response)

(***************************************************************************)
(* Inputs of the model.                                                    *)
(***************************************************************************)
UserIds == {"", "anonymous", "user-1"}

IngredientNames == {"Fragrance", "Rayon"}

ListsOver(names) == UNION {[1..n -> names] : n \in 0..MaxIngredients}

RECURSIVE Quoted(_)
Quoted(names) == IF names = <<>> THEN <<>> ELSE <<JStr(Head(names))>> \o Quoted(Tail(names))

\* what the vision backend can answer: every failure, every clean list, and
\* lists with blank, padded and non-string items
OCRAnswers ==
    { OCRAnswer(kind, "none", <<>>) :
          kind \in {"invalid_image", "bad_request", "api_error", "no_content", "text"} }
    \cup { OCRAnswer("json", top, <<>>) : top \in {"object", "str", "num", "null"} }
    \cup { OCRAnswer("json", "list", Quoted(names)) : names \in ListsOver(IngredientNames) }
    \cup { OCRAnswer("json", "list", <<JStr(" Fragrance "), JStr(""), JNull>>),
           OCRAnswer("json", "list", <<JStr(" "), JNumZero>>) }

BarcodeRequests ==
    { BarcodeRequest(barcode, uid) :
          barcode \in {" ", "037000561538"}, uid \in {"", "anonymous", " user-1"} }

Lookups ==
    { Lookup(kind, <<>>) : kind \in {"raises", "not_found", "invalid"} }
    \cup { Lookup("found", ingredients) : ingredients \in ListsOver(IngredientNames) }

ProfileAnswers ==
    { ProfileAnswer("raises", "none", "", <<>>),
      ProfileAnswer("baddata", "none", "", <<>>),
      ProfileAnswer("nodata", "none", "", <<>>),
      ProfileAnswer("data", "str", "PCOS, Latex ", <<>>),
      ProfileAnswer("data", "str", " , ", <<>>),
      ProfileAnswer("data", "list", "", <<"PCOS", "", " Latex">>),
      ProfileAnswer("data", "list", "", <<>>),
      ProfileAnswer("data", "null", "", <<>>),
      ProfileAnswer("data", "num", "", <<>>) }

DictItem(name, risk_level) == Item("dict", name, risk_level, JStr("because"))
NonDictItem == Item("str", JAbsent, JAbsent, JAbsent)

AnswerItems ==
    { DictItem(JStr("Cotton"), JStr("Low")),
      DictItem(JStr("Fragrance"), JStr("High")),
      DictItem(JAbsent, JStr("medium")),
      DictItem(JAbsent, JNull) }

AnswerDetails ==
    { Details("list", items) : items \in UNION {[1..n -> AnswerItems] : n \in 0..MaxDetails} }
    \cup { AbsentDetails, Details("null", <<>>), Details("num", <<>>),
           Details("str", <<NonDictItem, NonDictItem>>),
           Details("dict", <<NonDictItem>>) }

AnswerOveralls ==
    { JAbsent, JNull, JNumZero, JNumFive, JStr(""),
      JStr("Low Risk (Safe)"), JStr("Low Risk"), JStr("Caution (Irritating)"),
      JStr("High Risk (Harmful)"), JStr("HIGH"), JStr("Moderate") }

LLMAnswers ==
    { LLMAnswer(k, "none", JAbsent, JAbsent, AbsentDetails) :
          k \in {"api_error", "no_content", "text"} }
    \cup { LLMAnswer("json", t, JAbsent, JAbsent, AbsentDetails) :
          t \in {"array", "string", "number", "null"} }
    \cup { LLMAnswer("json", "object", o, JStr("Looks fine."), EmptyList) :
          o \in AnswerOveralls }
    \cup { LLMAnswer("json", "object", JStr("Low Risk (Safe)"), JStr("Looks fine."), d) :
          d \in AnswerDetails }
    \cup { LLMAnswer("json", "object", JStr("High Risk (Harmful)"), JAbsent, EmptyList),
           LLMAnswer("json", "object", JAbsent, JAbsent, AbsentDetails) }

(***************************************************************************)
(* _vector_search_cache = TTLCache(maxsize=500, ttl=3600) as the concurrent *)
(* calls see it: entries [key, value, expires], least recently used first. *)
(* The sequential specifications run within one ttl and below maxsize,     *)
(* where the TTLCache is the plain mapping vector_search_cache.            *)
(***************************************************************************)
\* maxsize (500 in the source) scaled to the number of keys the model uses
MaxCachedSearches == 2
\* ttl (3600 s in the source) in clock ticks
TTL == 1
\* the clock stops here
MaxTime == 2

\* key in cache
TTLContains(cache, key, time) ==
    \E i \in 1..Len(cache) : cache[i].key = key /\ time < cache[i].expires

\* cache[key]: KeyError when the key is missing or its time has come; a read
\* makes the entry the most recently used
TTLGet(cache, key, time) ==
    IF ~TTLContains(cache, key, time)
    THEN [raised |-> TRUE, value |-> <<>>, written |-> time, cache |-> cache]
    ELSE LET e == cache[CHOOSE i \in 1..Len(cache) : cache[i].key = key]
         IN  [raised |-> FALSE, value |-> e.value, written |-> e.expires - TTL,
              cache |-> Append(SelectSeq(cache, LAMBDA x : x.key # key), e)]

\* cache[key] = value: expired entries go, then the least recently used one
\* when there is no room, then the entry is written with a fresh expiry
TTLSet(cache, key, value, time) ==
    LET rest == SelectSeq(cache, LAMBDA x : time < x.expires /\ x.key # key)
    IN  Append(IF Len(rest) >= MaxCachedSearches THEN Tail(rest) ELSE rest,
               [key |-> key, value |-> value, expires |-> time + TTL])

\* the concurrent callers and what they ask for: <<query, limit, filter>>
SearchTasks == {1, 2}
ConcCalls == { <<"Fragrance", 1, NoFilter>>, <<"Fragrance", 2, NoFilter>>,
               <<"Rayon", 2, "Medium">> }

KeyOf(call) == CacheKey(call[1], EffectiveLimit(call[2]), EffectiveFilter(call[3]))

\* a caller that has not called yet: where it is, its arguments, the embedding
\* and the rows it holds, and what its call returned
IdleTask ==
    [at |-> "idle", call |-> <<"", 0, NoFilter>>, embedding |-> <<>>, results |-> <<>>,
     out |-> [raised |-> FALSE, value |-> <<>>, path |-> "none", age |-> 0]]

(***************************************************************************)
(* db_helpers.ConnectionPool. connections and available_connections are    *)
(* kept as counts: the pool treats its connections alike.                  *)
(***************************************************************************)
\* min_size and max_size a ConnectionPoolConfig is built with
PoolSizes == {0, 1, 2}
\* the coroutines that call pool.acquire()
PoolAcquirers == {1, 2}

\* before setup_connection_pool
NoPool ==
    [exists |-> FALSE, min_size |-> 0, max_size |-> 0, initialized |-> FALSE,
     connections |-> 0, available |-> 0, in_use_count |-> 0]

\* a _create_connection whose await returns a connection
CreateConnectionReturning == [raised |-> FALSE]

\* _create_connection awaits the value of get_supabase_client(), which is a
\* plain function returning the Client (supabase_client.py): the await raises
\* TypeError, or get_supabase_client raises first; no connection is returned
_create_connection == [raised |-> TRUE]

(***************************************************************************)
(* State.                                                                  *)
(***************************************************************************)
VARIABLES
    pc,                    \* position of the invocation in the pipeline
    entry,                 \* "image" (generate_risk_score) or "product"
    user_id,
    scanned_ingredients,   \* the ingredient list of the invocation
    user_sensitivities,
    idx,                   \* next ingredient of the loop in _search_all_ingredients
    all_results,
    seen_ids,
    risk_assessment,
    outcome,               \* how the invocation ended and what it returned
    vector_search_cache,   \* _vector_search_cache: key -> result list
    embedding_cache,       \* lru_cache of _generate_embedding_cached, oldest first
    profile_kind,          \* history: how the profile store answered
    search_log,            \* history: per ingredient searched, ok and the ids returned
    llm_answer,            \* history: what the generative model answered
    llm_calls,             \* history: generative-model calls of this invocation
    ocr_answer,            \* history: what the vision backend answered
    http,                  \* the answer of scan_barcode_with_assessment
    last_search,           \* the last direct call of search_similar_ingredients
    probe,                 \* the last direct call of a pure helper
    tasks,                 \* concurrent calls of search_similar_ingredients
    now,                   \* the clock the TTLCache reads
    ttl_cache,             \* _vector_search_cache with its expiry times, oldest use first
    pool,                  \* the ConnectionPool of db_helpers.py
    acquirers              \* where each caller of pool.acquire() is

vars == <<pc, entry, user_id, scanned_ingredients, user_sensitivities, idx, all_results,
          seen_ids, risk_assessment, outcome, vector_search_cache, embedding_cache,
          profile_kind, search_log, llm_answer, llm_calls, ocr_answer, http,
          last_search, probe, tasks, now, ttl_cache, pool, acquirers>>

\* what the pipeline's steps leave alone
direct_vars == <<last_search, probe, tasks, now, ttl_cache, pool, acquirers>>

\* what a direct call of a helper leaves alone
pipeline_vars == <<pc, entry, user_id, scanned_ingredients, user_sensitivities, idx,
                   all_results, seen_ids, risk_assessment, outcome, profile_kind,
                   search_log, llm_answer, llm_calls, ocr_answer, http,
                   tasks, now, ttl_cache, pool, acquirers>>

\* what concurrent calls of the search leave alone
scorer_vars == <<pc, entry, user_id, scanned_ingredients, user_sensitivities, idx,
                 all_results, seen_ids, risk_assessment, outcome, profile_kind,
                 search_log, llm_answer, llm_calls, ocr_answer, http,
                 vector_search_cache, last_search, probe, pool, acquirers>>

\* what the connection pool leaves alone
pool_frame == <<pc, entry, user_id, scanned_ingredients, user_sensitivities, idx,
                all_results, seen_ids, risk_assessment, outcome, profile_kind,
                search_log, llm_answer, llm_calls, ocr_answer, http,
                vector_search_cache, embedding_cache, last_search, probe,
                tasks, now, ttl_cache>>

EmptyCache == [k \in {} |-> <<>>]
NoAnswer == LLMAnswer("none", "none", JAbsent, JAbsent, AbsentDetails)
NoOutcome == [status |-> "none", response |-> NoResponse]
NoSearch ==
    [query |-> "", limit |-> 0, risk_level_filter |-> NoFilter, called |-> FALSE,
     raised |-> FALSE, value |-> <<>>, path |-> "none", embed_called |-> FALSE]
NoProbe == [fn |-> "none"]

RECURSIVE Ids(_)
Ids(rows) == IF rows = <<>> THEN <<>> ELSE <<Head(rows).id>> \o Ids(Tail(rows))

Init ==
    /\ pc = "idle"
    /\ entry = "none"
    /\ user_id = ""
    /\ scanned_ingredients = <<>>
    /\ user_sensitivities = <<>>
    /\ idx = 1
    /\ all_results = <<>>
    /\ seen_ids = {}
    /\ risk_assessment = DefaultAssessment
    /\ outcome = NoOutcome
    /\ vector_search_cache = EmptyCache
    /\ embedding_cache = <<>>
    /\ profile_kind = "none"
    /\ search_log = <<>>
    /\ llm_answer = NoAnswer
    /\ llm_calls = 0
    /\ ocr_answer = NoOCRAnswer
    /\ http = NoHttp
    /\ last_search = NoSearch
    /\ probe = NoProbe
    /\ tasks = [t \in SearchTasks |-> IdleTask]
    /\ now = 0
    /\ ttl_cache = <<>>
    /\ pool = NoPool
    /\ acquirers = [a \in PoolAcquirers |-> "idle"]

\* a new invocation starts with fresh locals; the two caches are process-wide
Fresh(e, uid, ingredients, next_pc) ==
    /\ pc' = next_pc
    /\ entry' = e
    /\ user_id' = uid
    /\ scanned_ingredients' = ingredients
    /\ user_sensitivities' = <<>>
    /\ idx' = 1
    /\ all_results' = <<>>
    /\ seen_ids' = {}
    /\ risk_assessment' = DefaultAssessment
    /\ outcome' = NoOutcome
    /\ profile_kind' = "none"
    /\ search_log' = <<>>
    /\ llm_answer' = NoAnswer
    /\ llm_calls' = 0
    /\ ocr_answer' = NoOCRAnswer
    /\ UNCHANGED <<vector_search_cache, embedding_cache>>
    /\ UNCHANGED direct_vars

\* generate_risk_score(image_file, user_id) is called
StartImage ==
    /\ pc = "idle"
    /\ \E uid \in UserIds : Fresh("image", uid, <<>>, "ocr")
    /\ UNCHANGED http

\* the endpoint's answer to a request it does not pass on to the scorer, or
\* its call generate_risk_score_for_product(product.id, product.brand_name,
\* product.ingredients, user_id) with the stripped user id
Admitted(request, lookup, answer) ==
    /\ http' = answer
    /\ IF answer.state = "error"
       THEN Fresh("product", "", <<>>, "responded")
       ELSE Fresh("product", Strip(request.user_id), lookup.ingredients, "fetch")

\* POST /scan/barcode/assess arrives
StartProduct ==
    /\ pc = "idle"
    /\ \E request \in BarcodeRequests, lookup \in Lookups :
          Admitted(request, lookup, Admit(request, lookup))

\* the invocation ends: its locals go out of scope, the caches stay
Ended(result) ==
    /\ pc' = "done"
    /\ outcome' = result
    /\ user_id' = ""
    /\ scanned_ingredients' = <<>>
    /\ user_sensitivities' = <<>>
    /\ idx' = 1
    /\ all_results' = <<>>
    /\ seen_ids' = {}
    /\ profile_kind' = "none"

Raised == [status |-> "RiskScorerError", response |-> NoResponse]
Returned(response) == [status |-> "returned", response |-> response]

\* except OCRError -> RiskScorerError; otherwise the list goes to the next step
Extracted(r) ==
    IF r.raised
    THEN Ended(Raised)
    ELSE /\ scanned_ingredients' = r.value
         /\ pc' = "fetch"
         /\ UNCHANGED <<outcome, user_id, user_sensitivities, idx, all_results,
                        seen_ids, profile_kind>>

\* Step 1 of generate_risk_score: extract_ingredients_from_image
OCRStep ==
    /\ pc = "ocr"
    /\ \E answer \in OCRAnswers :
          /\ ocr_answer' = answer
          /\ Extracted(extract_ingredients_from_image(answer))
    /\ UNCHANGED <<entry, risk_assessment, vector_search_cache, embedding_cache,
                   search_log, llm_answer, llm_calls, http>>
    /\ UNCHANGED direct_vars

\* a fetch step after which an empty ingredient list aborts the invocation
FetchedAbortingOnEmpty(r, kind) ==
    IF r.raised \/ scanned_ingredients = <<>>
    THEN Ended(Raised)
    ELSE /\ user_sensitivities' = r.value
         /\ profile_kind' = IF QueriesProfileStore(user_id) THEN kind ELSE "skipped"
         /\ pc' = "search"
         /\ UNCHANGED <<outcome, user_id, scanned_ingredients, idx, all_results, seen_ids>>

\* except -> RiskScorerError (sensitivities never raise); an empty ingredient
\* list leaves nothing for _search_all_ingredients to iterate over
Fetched(r, kind) ==
    IF r.raised
    THEN Ended(Raised)
    ELSE /\ user_sensitivities' = r.value
         /\ profile_kind' = IF QueriesProfileStore(user_id) THEN kind ELSE "skipped"
         /\ pc' = IF scanned_ingredients = <<>> THEN "llm" ELSE "search"
         /\ UNCHANGED <<outcome, user_id, scanned_ingredients, idx, all_results, seen_ids>>

\* Step "Fetch user profile and sensitivities": _fetch_user_sensitivities(user_id)
FetchStep ==
    /\ pc = "fetch"
    /\ \E answer \in ProfileAnswers :
          Fetched(_fetch_user_sensitivities(user_id, answer), answer.kind)
    /\ UNCHANGED <<entry, risk_assessment, vector_search_cache, embedding_cache,
                   search_log, llm_answer, llm_calls, ocr_answer, http>>
    /\ UNCHANGED direct_vars

\* the effect of one ingredient's search on the loop's state
Merged(m, r) ==
    /\ all_results' = m.all_results
    /\ seen_ids' = m.seen_ids
    /\ vector_search_cache' = r.search_cache
    /\ embedding_cache' = r.embedding_cache
    /\ search_log' = Append(search_log, [ok |-> ~r.raised, ids |-> Ids(r.value)])

Searched(r) == Merged(SearchOneIngredient(all_results, seen_ids, r), r)

\* one iteration of the loop of _search_all_ingredients
SearchStep ==
    /\ pc = "search"
    /\ idx <= Len(scanned_ingredients)
    /\ \E env \in Envs :
          Searched(search_similar_ingredients(scanned_ingredients[idx],
                       max_results_per_ingredient, NoFilter,
                       vector_search_cache, embedding_cache, env))
    /\ idx' = idx + 1
    /\ pc' = IF idx + 1 > Len(scanned_ingredients) THEN "llm" ELSE "search"
    /\ UNCHANGED <<entry, user_id, scanned_ingredients, user_sensitivities,
                   risk_assessment, outcome, profile_kind, llm_answer, llm_calls,
                   ocr_answer, http>>
    /\ UNCHANGED direct_vars

\* an orchestrator that calls the generative model a second time after a
\* failed call
FormattedRetrying(a, r) ==
    IF a.raised /\ llm_calls = 0
    THEN /\ pc' = "llm"
         /\ UNCHANGED <<risk_assessment, outcome, user_id, scanned_ingredients,
                        user_sensitivities, idx, all_results, seen_ids, profile_kind>>
    ELSE /\ risk_assessment' = IF a.raised THEN risk_assessment ELSE a.value
         /\ IF a.raised \/ r.raised THEN Ended(Raised) ELSE Ended(Returned(r.value))

\* the assessment, or the exception, reaches the end of the entry point
Formatted(a, r) ==
    /\ risk_assessment' = IF a.raised THEN risk_assessment ELSE a.value
    /\ IF a.raised \/ r.raised THEN Ended(Raised) ELSE Ended(Returned(r.value))

Assessed(a) == Formatted(a, FormatResponse(a.value, entry = "image", scanned_ingredients))

\* Steps "LLM" and "Format response" of both entry points, up to the return:
\* _generate_llm_assessment, then _normalize_risk_level and
\* _extract_risky_ingredients; any exception ends in RiskScorerError
LLMStep ==
    /\ pc = "llm"
    /\ \E answer \in LLMAnswers :
          /\ llm_answer' = answer
          /\ llm_calls' = llm_calls + 1
          /\ Assessed(_generate_llm_assessment(answer))
    /\ UNCHANGED <<entry, vector_search_cache, embedding_cache, search_log,
                   ocr_answer, http>>
    /\ UNCHANGED direct_vars

\* the endpoint takes the scorer's result or its RiskScorerError
RespondStep ==
    /\ pc = "done"
    /\ entry = "product"
    /\ pc' = "responded"
    /\ http' = Respond(outcome)
    /\ UNCHANGED <<entry, user_id, scanned_ingredients, user_sensitivities, idx,
                   all_results, seen_ids, risk_assessment, outcome, profile_kind,
                   search_log, llm_answer, llm_calls, ocr_answer,
                   vector_search_cache, embedding_cache>>
    /\ UNCHANGED direct_vars

\* the caller of generate_risk_score takes the result or the error; the client
\* of the endpoint takes its answer
ReturnToCaller ==
    /\ \/ pc = "done" /\ entry = "image"
       \/ pc = "responded"
    /\ pc' = "idle"
    /\ ocr_answer' = NoOCRAnswer
    /\ http' = NoHttp
    /\ entry' = "none"
    /\ outcome' = NoOutcome
    /\ risk_assessment' = DefaultAssessment
    /\ search_log' = <<>>
    /\ llm_answer' = NoAnswer
    /\ llm_calls' = 0
    /\ UNCHANGED <<user_id, scanned_ingredients, user_sensitivities, idx, all_results,
                   seen_ids, profile_kind, vector_search_cache, embedding_cache>>
    /\ UNCHANGED direct_vars

Next == StartImage \/ StartProduct \/ OCRStep \/ FetchStep \/ SearchStep \/ LLMStep
        \/ RespondStep \/ ReturnToCaller

Spec == Init /\ [][Next]_vars

(***************************************************************************)
(* Direct calls of search_similar_ingredients (search_sync is its wrapper) *)
(* with the caller's own limit and filter.                                 *)
(***************************************************************************)
SearchQueries == {"Fragrance", "Rayon", " "}
SearchLimits == {0, 2, 21}
SearchFilters == {NoFilter, "Medium", "Extreme"}

SearchCalled(query, limit, risk_level_filter, r) ==
    /\ vector_search_cache' = r.search_cache
    /\ embedding_cache' = r.embedding_cache
    /\ last_search' = [query |-> query, limit |-> limit,
                       risk_level_filter |-> risk_level_filter, called |-> TRUE,
                       raised |-> r.raised, value |-> r.value, path |-> r.path,
                       embed_called |-> r.embed_called]

SearchCall ==
    /\ \E query \in SearchQueries, limit \in SearchLimits,
          risk_level_filter \in SearchFilters, env \in Envs :
          SearchCalled(query, limit, risk_level_filter,
              search_similar_ingredients(query, limit, risk_level_filter,
                  vector_search_cache, embedding_cache, env))
    /\ UNCHANGED pipeline_vars
    /\ UNCHANGED probe

SearchNext == SearchCall

SpecSearch == Init /\ [][SearchNext]_vars

(***************************************************************************)
(* Direct calls of the two pure helpers of risk_scorer.py.                 *)
(***************************************************************************)
\* longest ingredient_details list handed to _extract_risky_ingredients
MaxProbeItems == 3

ProbeLabels ==
    { JStr(l) : l \in {"Low Risk (Safe)", "Low Risk", "Caution (Irritating)", "Caution",
                       "High Risk (Harmful)", "High Risk", "", "low risk (safe)",
                       "SAFE", "Irritating", "not high risk", "Harmful", "Medium",
                       "Safe, low but HIGH caution", "Caution: high",
                       "Harmful irritation", "Low", "Unknown"} }
    \cup {JNull, JNumZero, JNumFive}

ProbeItems ==
    { DictItem(JStr("Cotton"), JStr("Low")),
      DictItem(JStr("Rayon"), JStr("Medium")),
      DictItem(JStr("Fragrance"), JStr("HIGH")),
      DictItem(JAbsent, JStr("medium-high")),
      DictItem(JStr("Aloe"), JAbsent),
      DictItem(JStr("Dye"), JNull),
      NonDictItem }

ProbeDetails ==
    { Details("list", items) :
          items \in UNION {[1..n -> ProbeItems] : n \in 0..MaxProbeItems} }
    \cup { Details("null", <<>>), Details("num", <<>>),
           Details("str", <<NonDictItem, NonDictItem>>) }

NormalizeCall ==
    /\ probe = NoProbe
    /\ \E v \in ProbeLabels :
          probe' = [fn |-> "normalize", arg |-> v, out |-> _normalize_risk_level(v)]
    /\ UNCHANGED <<pipeline_vars, vector_search_cache, embedding_cache, last_search>>

ExtractCall ==
    /\ probe = NoProbe
    /\ \E d \in ProbeDetails :
          probe' = [fn |-> "extract", arg |-> d, out |-> _extract_risky_ingredients(d)]
    /\ UNCHANGED <<pipeline_vars, vector_search_cache, embedding_cache, last_search>>

\* the two search paths of search_similar_ingredients on the same embedding,
\* limit and filter: the filtered RPC rows and the fallback scan's rows
PathLimits == {1, 2, 5}
PathFilters == {NoFilter} \cup ValidFilters

BothPaths(query_embedding, limit, risk_level_filter) ==
    [rpc      |-> ApplyFilter(SearchNearestRPC(query_embedding, limit), risk_level_filter),
     fallback |-> _fallback_search(query_embedding, limit, risk_level_filter, TRUE).value]

PathsCall ==
    /\ probe = NoProbe
    /\ \E query \in IngredientNames, limit \in PathLimits, risk_level_filter \in PathFilters :
          probe' = [fn |-> "paths",
                    arg |-> [query |-> query, limit |-> limit,
                             risk_level_filter |-> risk_level_filter],
                    out |-> BothPaths(EmbedOf(query), limit, risk_level_filter)]
    /\ UNCHANGED <<pipeline_vars, vector_search_cache, embedding_cache, last_search>>

\* vectors handed to _cosine_similarity
CosineVectors ==
    { <<>>, <<0, 0>>, <<1>>, <<1, 0>>, <<1, 1>>, <<-1, -1>>, <<1, 2>>, <<3, 1>>,
      <<2, 3>>, <<4, 1>>, <<1, -1>> }

CosineCall ==
    /\ probe = NoProbe
    /\ \E vec1 \in CosineVectors, vec2 \in CosineVectors :
          probe' = [fn |-> "cosine", arg |-> <<vec1, vec2>>,
                    out |-> CosineFloat(vec1, vec2)]
    /\ UNCHANGED <<pipeline_vars, vector_search_cache, embedding_cache, last_search>>

\* the caller drops the value it was given
ProbeReturn ==
    /\ probe # NoProbe
    /\ probe' = NoProbe
    /\ UNCHANGED <<pipeline_vars, vector_search_cache, embedding_cache, last_search>>

PureNext == NormalizeCall \/ ExtractCall \/ PathsCall \/ CosineCall \/ ProbeReturn

SpecPure == Init /\ [][PureNext]_vars

(***************************************************************************)
(* Direct calls of generate_query_embedding. The caller's record keeps the *)
(* trimmed texts whose embedding has been obtained so far (obtained) and   *)
(* whether this call's text was among them (known).                        *)
(***************************************************************************)
EmbedTexts == {"Fragrance", " Fragrance ", "Rayon", "Cotton", "Chlorine", " "}

ObtainedSoFar == IF probe.fn = "embed" THEN probe.obtained ELSE {}

Embedded(text, r, obtained) ==
    /\ embedding_cache' = r.cache
    /\ probe' = [fn |-> "embed", arg |-> text,
                 out |-> [raised |-> r.raised, value |-> r.value, called |-> r.called],
                 known |-> Strip(text) \in obtained,
                 obtained |-> IF r.raised THEN obtained ELSE obtained \cup {Strip(text)}]

EmbedCall ==
    /\ \E text \in EmbedTexts, embed_ok \in BOOLEAN :
          Embedded(text, generate_query_embedding(text, embedding_cache, embed_ok),
                   ObtainedSoFar)
    /\ UNCHANGED <<pipeline_vars, vector_search_cache, last_search>>

EmbedNext == EmbedCall

SpecEmbed == Init /\ [][EmbedNext]_vars

(***************************************************************************)
(* Concurrent calls of search_similar_ingredients. A call is at "check"    *)
(* (before the locked cache lookup), "read" (inside the lock, between      *)
(* `cache_key in cache` and `cache[cache_key]`), "embed", "query" (client, *)
(* RPC, fallback), "store" (before the locked cache write) or "returned".  *)
(***************************************************************************)
\* _vector_search_cache_lock is free
LockFree == \A t \in SearchTasks : tasks[t].at # "read"

ReturnedWith(t, raised, value, path, age) ==
    tasks' = [tasks EXCEPT ![t] = [IdleTask EXCEPT
                  !.at = "returned", !.call = tasks[t].call,
                  !.out = [raised |-> raised, value |-> value, path |-> path,
                           age |-> age]]]

\* a caller calls search_similar_ingredients(query, limit, risk_level_filter)
CallStep(t) ==
    /\ tasks[t].at \in {"idle", "returned"}
    /\ \E call \in ConcCalls :
          tasks' = [tasks EXCEPT ![t] = [IdleTask EXCEPT !.at = "check", !.call = call]]
    /\ UNCHANGED <<scorer_vars, embedding_cache, now, ttl_cache>>

\* with _vector_search_cache_lock: if cache_key in _vector_search_cache
CheckStep(t) ==
    /\ tasks[t].at = "check"
    /\ LockFree
    /\ tasks' = [tasks EXCEPT ![t].at =
                    IF TTLContains(ttl_cache, KeyOf(tasks[t].call), now)
                    THEN "read" ELSE "embed"]
    /\ UNCHANGED <<scorer_vars, embedding_cache, now, ttl_cache>>

\* return _vector_search_cache[cache_key]; a KeyError becomes VectorSearchError
ReadStep(t) ==
    /\ tasks[t].at = "read"
    /\ LET r == TTLGet(ttl_cache, KeyOf(tasks[t].call), now)
       IN  /\ ttl_cache' = r.cache
           /\ IF r.raised
              THEN ReturnedWith(t, TRUE, <<>>, "cache", 0)
              ELSE ReturnedWith(t, FALSE, r.value, "hit", now - r.written)
    /\ UNCHANGED <<scorer_vars, embedding_cache, now>>

\* query_embedding = await generate_query_embedding(query)
EmbedStep(t) ==
    /\ tasks[t].at = "embed"
    /\ \E embed_ok \in BOOLEAN :
          LET r == generate_query_embedding(tasks[t].call[1], embedding_cache, embed_ok)
          IN  /\ embedding_cache' = r.cache
              /\ IF r.raised
                 THEN ReturnedWith(t, TRUE, <<>>, "embedding", 0)
                 ELSE tasks' = [tasks EXCEPT ![t].at = "query",
                                             ![t].embedding = r.value]
    /\ UNCHANGED <<scorer_vars, now, ttl_cache>>

\* get_supabase_client, the RPC with the filter, or the fallback scan
QueryStep(t) ==
    /\ tasks[t].at = "query"
    /\ \E env \in Envs :
          /\ env.embed_ok
          /\ LET r == SearchMiss(
                      [raised |-> FALSE, value |-> tasks[t].embedding, cache |-> <<>>,
                       called |-> FALSE],
                      EffectiveLimit(tasks[t].call[2]), EffectiveFilter(tasks[t].call[3]),
                      KeyOf(tasks[t].call), EmptyCache, env)
             IN  IF r.path = "rpc" /\ r.value # <<>>
                 THEN tasks' = [tasks EXCEPT ![t].at = "store", ![t].results = r.value]
                 ELSE ReturnedWith(t, r.raised, r.value, r.path, 0)
    /\ UNCHANGED <<scorer_vars, embedding_cache, now, ttl_cache>>

\* with _vector_search_cache_lock: _vector_search_cache[cache_key] = results
StoreStep(t) ==
    /\ tasks[t].at = "store"
    /\ LockFree
    /\ ttl_cache' = TTLSet(ttl_cache, KeyOf(tasks[t].call), tasks[t].results, now)
    /\ ReturnedWith(t, FALSE, tasks[t].results, "rpc", 0)
    /\ UNCHANGED <<scorer_vars, embedding_cache, now>>

\* time passes
Tick ==
    /\ now < MaxTime
    /\ now' = now + 1
    /\ UNCHANGED <<scorer_vars, embedding_cache, tasks, ttl_cache>>

ConcNext ==
    \/ \E t \in SearchTasks :
          CallStep(t) \/ CheckStep(t) \/ ReadStep(t) \/ EmbedStep(t) \/ QueryStep(t)
          \/ StoreStep(t)
    \/ Tick

SpecConc == Init /\ [][ConcNext]_vars

(***************************************************************************)
(* The connection pool: construction, initialize, acquire (as a coroutine  *)
(* with its suspension points), close.                                     *)
(***************************************************************************)
\* pool = ConnectionPool(ConnectionPoolConfig(min_size, max_size))
PoolCreate ==
    /\ ~pool.exists
    /\ \E min_size \in PoolSizes, max_size \in PoolSizes :
          pool' = [NoPool EXCEPT !.exists = TRUE, !.min_size = min_size,
                                 !.max_size = max_size]
    /\ UNCHANGED <<pool_frame, acquirers>>

\* initialize(): under _pool_lock, min_size creations, failures logged
PoolInitialize ==
    /\ pool.exists
    /\ ~pool.initialized
    /\ pool' = IF _create_connection.raised
               THEN [pool EXCEPT !.initialized = TRUE]
               ELSE [pool EXCEPT !.initialized = TRUE,
                                 !.connections = @ + pool.min_size,
                                 !.available = @ + pool.min_size]
    /\ UNCHANGED <<pool_frame, acquirers>>

\* acquire() up to its first await: get_nowait, else the size test
AcquireCall(a) ==
    /\ pool.exists
    /\ acquirers[a] \in {"idle", "failed"}
    /\ IF pool.available > 0
       THEN /\ pool' = [pool EXCEPT !.available = @ - 1, !.in_use_count = @ + 1]
            /\ acquirers' = [acquirers EXCEPT ![a] = "using"]
       ELSE /\ pool' = pool
            /\ acquirers' = [acquirers EXCEPT ![a] =
                                IF pool.connections < pool.max_size
                                THEN "creating" ELSE "waiting"]
    /\ UNCHANGED pool_frame

\* acquire() resumed: after await _create_connection(), after wait_for(get),
\* or leaving the with-block (finally)
AcquireResume(a) ==
    /\ acquirers[a] \in {"creating", "waiting", "using"}
    /\ IF acquirers[a] = "creating"
       THEN IF _create_connection.raised
            THEN /\ pool' = pool
                 /\ acquirers' = [acquirers EXCEPT ![a] = "failed"]
            ELSE /\ pool' = [pool EXCEPT !.connections = @ + 1, !.in_use_count = @ + 1]
                 /\ acquirers' = [acquirers EXCEPT ![a] = "using"]
       ELSE IF acquirers[a] = "waiting"
       THEN IF pool.available > 0
            THEN /\ pool' = [pool EXCEPT !.available = @ - 1, !.in_use_count = @ + 1]
                 /\ acquirers' = [acquirers EXCEPT ![a] = "using"]
            ELSE /\ pool' = pool
                 /\ acquirers' = [acquirers EXCEPT ![a] = "failed"]
       ELSE \E valid \in BOOLEAN :
               /\ pool' = IF valid
                          THEN [pool EXCEPT !.in_use_count = @ - 1, !.available = @ + 1]
                          ELSE [pool EXCEPT !.in_use_count = @ - 1,
                                            !.connections = IF @ > 0 THEN @ - 1 ELSE 0]
               /\ acquirers' = [acquirers EXCEPT ![a] = "idle"]
    /\ UNCHANGED pool_frame

\* close()
PoolClose ==
    /\ pool.exists
    /\ pool.initialized
    /\ pool' = [pool EXCEPT !.connections = 0, !.available = 0, !.initialized = FALSE]
    /\ UNCHANGED <<pool_frame, acquirers>>

PoolNext ==
    \/ PoolCreate
    \/ PoolInitialize
    \/ \E a \in PoolAcquirers : AcquireCall(a) \/ AcquireResume(a)
    \/ PoolClose

SpecPool == Init /\ [][PoolNext]_vars

(***************************************************************************)
(* Properties.                                                             *)
(***************************************************************************)
RiskLevels == {"Low Risk", "Caution", "High Risk"}

ReturnedResult == pc = "done" /\ outcome.status = "returned"
EndedInError == pc = "done" /\ outcome.status = "RiskScorerError"

AllSearchesOk == \A i \in 1..Len(search_log) : search_log[i].ok

\* C1: in both entry points, when the generative-model call fails with a
\* backend error the invocation ends with RiskScorerError and no result dict,
\* whatever the earlier steps did.
C1_BackendFailureIsFatal ==
    (pc = "done" /\ llm_answer.kind = "api_error")
        => (outcome.status = "RiskScorerError" /\ outcome.response = NoResponse)

\* the model fails after every search of a product's ingredients succeeded
C1_Witness ==
    /\ EndedInError
    /\ entry = "product"
    /\ llm_answer.kind = "api_error"
    /\ Len(search_log) = 2
    /\ AllSearchesOk

\* C2: when the model's text is not valid JSON the invocation does not raise:
\* it returns "Caution", the generic explanation and no risky ingredients.
C2_BadJSONGivesDefault ==
    (pc = "done" /\ llm_answer.kind = "text")
        => /\ outcome.status = "returned"
           /\ outcome.response.risk_level = "Caution"
           /\ outcome.response.explanation = JStr("Assessment requires manual review")
           /\ outcome.response.risky_ingredients = <<>>

C2_Witness ==
    /\ ReturnedResult
    /\ llm_answer.kind = "text"
    /\ entry = "image"

\* C3: every model response that parses as JSON, whatever its shape (top-level
\* value not an object, ingredient_details not a list, risk_level or
\* overall_risk_level not a string), still ends in a returned result, never in
\* an error.
C3_ParseableJSONNeverRaises ==
    (pc = "done" /\ llm_answer.kind = "json") => outcome.status = "returned"

\* C4: _normalize_risk_level is total over strings and None, and every result
\* dict returned carries one of the three risk levels, whatever the model
\* answered.
C4_RiskLevelInVocabulary ==
    /\ ReturnedResult => outcome.response.risk_level \in RiskLevels
    /\ (/\ pc = "done"
        /\ llm_answer.kind = "json"
        /\ llm_answer.top = "object"
        /\ llm_answer.overall.t \in {"str", "null", "absent"}
        /\ llm_answer.details = EmptyList)
           => ReturnedResult

\* a label without any keyword is answered and the result says "Caution"
C4_Witness ==
    /\ ReturnedResult
    /\ llm_answer.overall = JStr("Moderate")
    /\ outcome.response.risk_level = "Caution"

Canonical(label) ==
    CASE label \in {"Low Risk (Safe)", "Low Risk"}         -> "Low Risk"
      [] label \in {"Caution (Irritating)", "Caution"}     -> "Caution"
      [] label \in {"High Risk (Harmful)", "High Risk"}    -> "High Risk"
      [] OTHER                                             -> "none"

\* C5: a canonical label with its parenthetical qualifier and the bare label
\* normalize to the same value, the bare label itself.
C5_QualifierDoesNotMatter ==
    (probe.fn = "normalize" /\ probe.arg.t = "str" /\ Canonical(probe.arg.s) # "none")
        => (~probe.out.raised /\ probe.out.value = Canonical(probe.arg.s))

RiskyDict(item) ==
    /\ item.kind = "dict"
    /\ item.risk_level.t = "str"
    /\ \/ Contains(Lower(item.risk_level.s), "medium")
       \/ Contains(Lower(item.risk_level.s), "high")

\* C6: risky_ingredients is, in the original order, exactly the entries of
\* ingredient_details whose risk_level contains "medium" or "high" whatever
\* the case; a "Low" entry is never in it.
C6_RiskySubsequence ==
    (probe.fn = "extract" /\ ~probe.out.raised)
        => LET chosen == SelectSeq(probe.arg.items, RiskyDict) IN
           /\ Len(probe.out.value) = Len(chosen)
           /\ \A k \in 1..Len(chosen) :
                 /\ probe.out.value[k].risk_level = chosen[k].risk_level
                 /\ chosen[k].name.t # "absent"
                       => probe.out.value[k].name = chosen[k].name
                 /\ probe.out.value[k].reason = chosen[k].reason
           /\ \A k \in 1..Len(probe.out.value) :
                 Lower(probe.out.value[k].risk_level.s) # "low"

\* Low, Medium, HIGH in: Medium and HIGH out, in that order
C6_Witness ==
    /\ probe.fn = "extract"
    /\ ~probe.out.raised
    /\ probe.arg.t = "list"
    /\ Len(probe.arg.items) = 3
    /\ probe.arg.items[1].risk_level = JStr("Low")
    /\ probe.arg.items[2].risk_level = JStr("Medium")
    /\ probe.arg.items[3].risk_level = JStr("HIGH")
    /\ Len(probe.out.value) = 2
    /\ probe.out.value[1].name = JStr("Rayon")
    /\ probe.out.value[2].name = JStr("Fragrance")

RECURSIVE OkIds(_)
OkIds(log) ==
    IF log = <<>> THEN <<>>
    ELSE (IF Head(log).ok THEN Head(log).ids ELSE <<>>) \o OkIds(Tail(log))

Range(seq) == {seq[i] : i \in 1..Len(seq)}

RECURSIVE FirstOccurrences(_, _)
FirstOccurrences(ids, seen) ==
    IF ids = <<>> THEN <<>>
    ELSE IF Head(ids) \in seen THEN FirstOccurrences(Tail(ids), seen)
    ELSE <<Head(ids)>> \o FirstOccurrences(Tail(ids), seen \cup {Head(ids)})

\* C9: the merged context never holds two entries with the same knowledge-base
\* id; of several rows with one id the first in search order is kept.
C9_ContextDeduplicated ==
    pc \in {"search", "llm"} =>
        /\ \A i, j \in 1..Len(all_results) :
              i # j => all_results[i].id # all_results[j].id
        /\ Ids(all_results) = FirstOccurrences(OkIds(search_log), {})

\* two successful searches returned a common id, kept once
C9_Witness ==
    /\ pc = "llm"
    /\ Len(search_log) = 2
    /\ AllSearchesOk
    /\ Range(search_log[1].ids) \cap Range(search_log[2].ids) # {}
    /\ Range(search_log[1].ids) # Range(search_log[2].ids)
    /\ Len(all_results) < Len(search_log[1].ids) + Len(search_log[2].ids)

SearchReturned == last_search.called /\ ~last_search.raised

SameSearchAgain ==
    /\ last_search'.query = last_search.query
    /\ last_search'.limit = last_search.limit
    /\ last_search'.risk_level_filter = last_search.risk_level_filter

\* C11: after a search for (query, limit, filter) returned, the next identical
\* call returns the same list and does not invoke the embedding backend.
C11_RepeatedSearchServedFromCache ==
    [][(SearchReturned /\ SameSearchAgain) =>
          /\ ~last_search'.raised
          /\ last_search'.value = last_search.value
          /\ ~last_search'.embed_called]_vars

LastSearchKey ==
    CacheKey(last_search.query, EffectiveLimit(last_search.limit),
             EffectiveFilter(last_search.risk_level_filter))

\* C12: every search that returns normally leaves its result list in the
\* search cache under its key, whichever path produced it and also when the
\* list is empty.
C12_EveryResultCached ==
    SearchReturned =>
        /\ LastSearchKey \in DOMAIN vector_search_cache
        /\ vector_search_cache[LastSearchKey] = last_search.value

\* C13: with a valid query embedding the search raises only when the
\* accelerated path and the fallback path have both failed: every raising
\* call that got its embedding went through the fallback.
C13_RaisesOnlyAfterBothPaths ==
    (last_search.called /\ last_search.raised /\ last_search.path # "embedding")
        => last_search.path = "fallback"

PassesBoth(row, risk_level_filter) ==
    /\ AboveThreshold(row.similarity_score)
    /\ FilterSet(risk_level_filter) => row.risk_level = risk_level_filter

\* C14: for the same knowledge base, query, limit and filter the accelerated
\* path and the fallback path have the same top-1 id, and every entry either
\* path returns passes the 0.1 threshold and the risk filter.
C14_PathsAgree ==
    probe.fn = "paths" =>
        /\ Ids(Take(probe.out.rpc, 1)) = Ids(Take(probe.out.fallback, 1))
        /\ \A i \in 1..Len(probe.out.rpc) :
              PassesBoth(probe.out.rpc[i], probe.arg.risk_level_filter)
        /\ \A i \in 1..Len(probe.out.fallback) :
              PassesBoth(probe.out.fallback[i], probe.arg.risk_level_filter)

\* C15: once the embedding of a trimmed text has been obtained, every later
\* request for that text returns the same vector without invoking the
\* embedding backend, however many other texts were embedded in between.
C15_EmbeddingNeverRecomputed ==
    (probe.fn = "embed" /\ probe.known) =>
        /\ ~probe.out.raised
        /\ ~probe.out.called
        /\ probe.out.value = EmbedOf(Strip(probe.arg))

\* the vision backend failed, or its output was not a JSON array
OCRFailed(answer) == answer.kind # "json" \/ answer.top # "list"

\* C16: when the vision backend fails or answers something that is not a JSON
\* array, generate_risk_score goes from the OCR step straight to its end with
\* RiskScorerError: no sensitivities fetched, no search, no model call, no
\* cache touched; any JSON array, however dirty, goes on to the fetch step
C16_OCRFailureIsFatal ==
    [][pc = "ocr" =>
          IF OCRFailed(ocr_answer')
          THEN /\ pc' = "done"
               /\ outcome' = Raised
               /\ profile_kind' = "none"
               /\ search_log' = <<>>
               /\ llm_calls' = 0
               /\ llm_answer' = NoAnswer
               /\ UNCHANGED <<vector_search_cache, embedding_cache>>
          ELSE /\ pc' = "fetch"
               /\ scanned_ingredients' = CleanIngredients(ocr_answer'.items)]_vars

C16_Witness ==
    /\ pc = "done"
    /\ entry = "image"
    /\ ocr_answer.kind = "json"
    /\ ocr_answer.top = "object"
    /\ outcome.status = "RiskScorerError"
    /\ llm_calls = 0

\* the model answered something _generate_llm_assessment and the formatting
\* step accept: text that is not JSON, or an object with a string label and
\* no ingredient details
AnswerUsable(answer) ==
    \/ answer.kind = "text"
    \/ /\ answer.kind = "json"
       /\ answer.top = "object"
       /\ answer.overall.t \in {"str", "absent"}
       /\ answer.details \in {EmptyList, AbsentDetails}

\* C17: an empty ingredient list does not abort the invocation: the search
\* loop is never entered with it, the fetch step hands it to the model step,
\* the generative model is invoked exactly once
\* with no search having run, and whenever the model's answer is usable a
\* result is returned, with ingredients_found the empty list on the image entry
\* and no such field on the product entry
C17_EmptyListStillAssessed ==
    [][/\ (pc = "search" => scanned_ingredients # <<>>)
       /\ (pc = "fetch" /\ scanned_ingredients = <<>> => pc' = "llm")
       /\ ((pc = "llm" /\ scanned_ingredients = <<>>) =>
              /\ search_log = <<>>
              /\ llm_calls = 0
              /\ llm_calls' = 1
              /\ pc' = "done"
              /\ (AnswerUsable(llm_answer') =>
                     /\ outcome'.status = "returned"
                     /\ outcome'.response.has_ingredients_found = (entry = "image")
                     /\ outcome'.response.ingredients_found = <<>>))]_vars

C17_Witness ==
    /\ pc = "done"
    /\ entry = "image"
    /\ ocr_answer.kind = "json"
    /\ ocr_answer.top = "list"
    /\ CleanIngredients(ocr_answer.items) = <<>>
    /\ search_log = <<>>
    /\ llm_calls = 1
    /\ outcome.status = "returned"
    /\ outcome.response.has_ingredients_found
    /\ outcome.response.ingredients_found = <<>>

\* C18: in the barcode-assessment endpoint, when the scorer raised the answer
\* is the error alone (status 500, no scan_id, no timestamp, no body) and
\* save_scan_to_history was not scheduled; the save is scheduled only with a
\* complete answer that carries scan_id, timestamp and the scorer's result; a
\* request rejected before the scorer is called schedules nothing either
C18_SaveOnlyAfterCompleteResponse ==
    pc = "responded" =>
        /\ (outcome.status = "RiskScorerError" => http = HttpError(500))
        /\ (http.state = "error" =>
               /\ ~http.has_scan_id
               /\ ~http.has_timestamp
               /\ ~http.save_scheduled
               /\ http.body = NoResponse)
        /\ (http.save_scheduled =>
               /\ http.state = "ok"
               /\ http.has_scan_id
               /\ http.has_timestamp
               /\ outcome.status = "returned"
               /\ http.body = outcome.response)
        /\ (outcome.status = "returned" => http.save_scheduled)

C18_Witness ==
    /\ pc = "responded"
    /\ outcome.status = "RiskScorerError"
    /\ llm_calls = 1
    /\ http.state = "error"
    /\ ~http.save_scheduled

ObjectAssessed == pc = "done" /\ llm_answer.kind = "json" /\ llm_answer.top = "object"

\* C20 as stated: a key missing from the model's JSON object is filled with
\* the value the parse-failure path uses for it, and present keys are unchanged
C20_BackfillWithParseFailureDefault ==
    ObjectAssessed =>
        /\ risk_assessment.overall_risk_level =
               Get(llm_answer.overall, DefaultAssessment.overall_risk_level)
        /\ risk_assessment.explanation =
               Get(llm_answer.explanation, DefaultAssessment.explanation)
        /\ risk_assessment.ingredient_details =
               IF llm_answer.details.t = "absent"
               THEN DefaultAssessment.ingredient_details ELSE llm_answer.details

\* C20 amended: a missing key alone is filled and present keys are unchanged;
\* overall_risk_level and ingredient_details get the parse-failure values,
\* explanation gets the text "Unable to generate detailed explanation", which
\* is not the parse-failure text
C20_BackfillPerKey ==
    /\ DefaultAssessment.explanation # JStr("Unable to generate detailed explanation")
    /\ ObjectAssessed =>
           /\ risk_assessment.overall_risk_level =
                  Get(llm_answer.overall, DefaultAssessment.overall_risk_level)
           /\ risk_assessment.explanation =
                  Get(llm_answer.explanation, JStr("Unable to generate detailed explanation"))
           /\ risk_assessment.ingredient_details =
                  IF llm_answer.details.t = "absent"
                  THEN DefaultAssessment.ingredient_details ELSE llm_answer.details

C20_Witness ==
    /\ ObjectAssessed
    /\ llm_answer.overall = JStr("High Risk (Harmful)")
    /\ llm_answer.explanation = JAbsent
    /\ risk_assessment.overall_risk_level = JStr("High Risk (Harmful)")
    /\ risk_assessment.explanation = JStr("Unable to generate detailed explanation")
    /\ outcome.status = "returned"

\* the direct call was made with a limit outside 1..MAX_SEARCH_LIMIT
InvalidLimitCall ==
    /\ last_search.called
    /\ last_search.limit \notin 1..MAX_SEARCH_LIMIT

C22_AnonymousSkipsProfileStore ==
    [][pc = "fetch" =>
          IF user_id \in {"", "anonymous"}
          THEN /\ user_sensitivities' = <<>>
               /\ profile_kind' = "skipped"
               /\ pc' \in {"search", "llm"}
          ELSE profile_kind' \in {answer.kind : answer \in ProfileAnswers}]_vars

C22_Witness ==
    /\ pc = "search"
    /\ entry = "image"
    /\ user_id = ""
    /\ profile_kind = "skipped"
    /\ user_sensitivities = <<>>

\* C23: when the loop of _search_all_ingredients is over, the similarity
\* search has been called once per distinct ingredient name of the list
C23_OneSearchPerDistinctName ==
    pc = "llm" => Len(search_log) = Cardinality(Range(scanned_ingredients))

\* the positions an invocation may move to from a position
StepsAfter(p) ==
    CASE p = "idle"      -> {"ocr", "fetch", "responded"}
      [] p = "ocr"       -> {"fetch", "done"}
      [] p = "fetch"     -> {"search", "llm"}
      [] p = "search"    -> {"search", "llm"}
      [] p = "llm"       -> {"done"}
      [] p = "done"      -> {"responded", "idle"}
      [] p = "responded" -> {"idle"}

Has(word) == Contains(Lower(probe.arg.s), word)

\* C25: _normalize_risk_level on a string: "low" together with "safe" gives
\* "Low Risk" whatever else the label holds; failing that, "caution" or
\* "irritat" gives "Caution"; failing that, "high" or "harm" gives "High Risk";
\* any other label, the empty one included, gives "Caution"
C25_KeywordPrecedence ==
    (probe.fn = "normalize" /\ probe.arg.t = "str") =>
        /\ ~probe.out.raised
        /\ ((Has("low") /\ Has("safe")) => probe.out.value = "Low Risk")
        /\ ((~(Has("low") /\ Has("safe")) /\ (Has("caution") \/ Has("irritat")))
               => probe.out.value = "Caution")
        /\ ((~(Has("low") /\ Has("safe")) /\ ~(Has("caution") \/ Has("irritat"))
                /\ (Has("high") \/ Has("harm")))
               => probe.out.value = "High Risk")
        /\ ((~(Has("low") /\ Has("safe")) /\ ~(Has("caution") \/ Has("irritat"))
                /\ ~(Has("high") \/ Has("harm")))
               => probe.out.value = "Caution")
        /\ (probe.arg.s = "" => probe.out.value = "Caution")

C25_Witness ==
    /\ probe.fn = "normalize"
    /\ probe.arg = JStr("Safe, low but HIGH caution")
    /\ probe.out.value = "Low Risk"

(***************************************************************************)
(* Concurrent searches (SpecConc).                                         *)
(***************************************************************************)
\* what the knowledge base answers for a call, by the RPC and by the fallback
RpcAnswer(call) ==
    ApplyFilter(SearchNearestRPC(EmbedOf(Strip(call[1])), EffectiveLimit(call[2])),
                EffectiveFilter(call[3]))
FallbackAnswer(call) ==
    _fallback_search(EmbedOf(Strip(call[1])), EffectiveLimit(call[2]),
                     EffectiveFilter(call[3]), TRUE).value

\* C26: under any interleaving of concurrent searches, every slot of the search
\* cache holds the complete result list computed for the key of that slot, and
\* every call that returns a list returns the list of its own (query, limit,
\* filter), never the list of another call.
C26_CacheSlotsBelongToTheirKey ==
    /\ \A i \in 1..Len(ttl_cache) :
          /\ \E call \in ConcCalls : KeyOf(call) = ttl_cache[i].key
          /\ \A call \in ConcCalls :
                KeyOf(call) = ttl_cache[i].key => ttl_cache[i].value = RpcAnswer(call)
    /\ \A t \in SearchTasks :
          (tasks[t].at = "returned" /\ ~tasks[t].out.raised) =>
              tasks[t].out.value \in {RpcAnswer(tasks[t].call), FallbackAnswer(tasks[t].call)}

\* two callers hold different calls, one of them answered from a cache that
\* holds the slot of the other as well
C26_Witness ==
    /\ Len(ttl_cache) = 2
    /\ tasks[1].at = "returned" /\ tasks[1].out.path = "hit"
    /\ tasks[2].at = "store" /\ tasks[2].call # tasks[1].call
    /\ tasks[2].call[1] = tasks[1].call[1]

\* C27: the search cache never holds more than maxsize entries, an entry written
\* more than ttl ago is never returned as a hit, and a call that finds its entry
\* expired recomputes: it never fails at the cache lookup itself.
C27_ExpiredEntryRecomputed ==
    /\ Len(ttl_cache) <= MaxCachedSearches
    /\ \A t \in SearchTasks :
          tasks[t].at = "returned" =>
              /\ (tasks[t].out.path = "hit" => tasks[t].out.age <= TTL)
              /\ tasks[t].out.path # "cache"

(***************************************************************************)
(* What a failed search leaves behind (SpecSearch).                        *)
(***************************************************************************)
\* the direct call just made is the one made before it, which had failed
RepeatsFailedCall ==
    /\ last_search.called /\ last_search.raised
    /\ last_search'.query = last_search.query
    /\ last_search'.limit = last_search.limit
    /\ last_search'.risk_level_filter = last_search.risk_level_filter

\* C29 as stated: a search that ends in VectorSearchError leaves the search
\* cache unchanged and leaves no embedding cached for its text.
C29_FailedSearchCachesNoEmbedding ==
    [][ (last_search'.called /\ last_search'.raised) =>
            /\ vector_search_cache' = vector_search_cache
            /\ Strip(last_search'.query) \notin CachedTexts(embedding_cache') ]_vars

\* C29, amended: a search that ends in VectorSearchError leaves the search cache
\* unchanged. When it failed at the embedding (blank query or backend failure)
\* the embedding cache is unchanged and holds nothing for the text; a blank
\* query fails there without a backend or knowledge-base call. When it failed
\* at the knowledge base (no client, or RPC and fallback both failing) the
\* embedding it obtained stays cached. The identical call made next is never
\* answered from a cache: after an embedding failure it calls the embedding
\* backend again, after a knowledge-base failure it goes to the knowledge base
\* again with the cached embedding.
C29_FailedSearchCachesNoFailure ==
    [][ /\ (last_search'.called /\ last_search'.raised) =>
              /\ vector_search_cache' = vector_search_cache
              /\ last_search'.path \in {"embedding", "client", "fallback"}
              /\ (last_search'.path = "embedding" =>
                     /\ embedding_cache' = embedding_cache
                     /\ Strip(last_search'.query) \notin CachedTexts(embedding_cache'))
              /\ (Strip(last_search'.query) = "" =>
                     /\ last_search'.path = "embedding"
                     /\ ~last_search'.embed_called)
              /\ (last_search'.path \in {"client", "fallback"} =>
                     Strip(last_search'.query) \in CachedTexts(embedding_cache'))
        /\ RepeatsFailedCall =>
              /\ last_search'.path # "hit"
              /\ ((last_search.path = "embedding" /\ Strip(last_search.query) # "") =>
                     last_search'.embed_called)
              /\ (last_search.path \in {"client", "fallback"} =>
                     /\ ~last_search'.embed_called
                     /\ last_search'.path \in {"client", "rpc", "fallback"}) ]_vars

\* a search failed at the knowledge base while the search cache held results
\* of earlier calls
C29_Witness ==
    /\ last_search.called /\ last_search.raised
    /\ last_search.path = "fallback"
    /\ Strip(last_search.query) \in CachedTexts(embedding_cache)
    /\ DOMAIN vector_search_cache # {}

IdenticalNonZero ==
    /\ probe.fn = "cosine"
    /\ probe.arg[1] = probe.arg[2]
    /\ \E i \in 1..Len(probe.arg[1]) : probe.arg[1][i] # 0

\* C30 as stated: _cosine_similarity never divides by zero, returns 0.0 for an
\* empty, mismatched or zero-magnitude pair, and returns exactly 1.0 for
\* identical non-zero vectors.
C30_IdenticalVectorsScoreOne ==
    probe.fn = "cosine" =>
        /\ ~probe.out.raised
        /\ IdenticalNonZero => probe.out.n = probe.out.d

\* C30, amended: _cosine_similarity never divides by zero; it returns 0.0 when
\* a vector is empty, the lengths differ or a vector has zero magnitude;
\* otherwise the score has the sign of the dot product, and for identical
\* non-zero vectors it is 1.0 up to rounding: within 2^(1 - Precision) of 1.0,
\* on either side.
C30_IdenticalVectorsScoreNearOne ==
    probe.fn = "cosine" =>
        /\ ~probe.out.raised
        /\ ((\/ probe.arg[1] = <<>> \/ probe.arg[2] = <<>>
             \/ Len(probe.arg[1]) # Len(probe.arg[2])
             \/ Dot(probe.arg[1], probe.arg[1]) = 0
             \/ Dot(probe.arg[2], probe.arg[2]) = 0) => probe.out.n = 0)
        /\ ((Len(probe.arg[1]) = Len(probe.arg[2])) =>
               /\ (Dot(probe.arg[1], probe.arg[2]) > 0 => probe.out.n > 0)
               /\ (Dot(probe.arg[1], probe.arg[2]) < 0 => probe.out.n < 0))
        /\ IdenticalNonZero =>
               Abs(probe.out.n - probe.out.d) * Pow2(Precision - 1) <= probe.out.d

\* identical non-zero vectors whose score is not 1.0
C30_Witness ==
    /\ IdenticalNonZero
    /\ ~probe.out.raised
    /\ probe.out.n # probe.out.d

====
